---- MODULE Spec2Model ----
(***************************************************************************)
(* Model of the slyce crate (src/src/lib.rs): a python-like slicer.        *)
(*                                                                         *)
(* A Slice {start, end, step} is built either as a struct literal or from  *)
(* Option<isize> / Option<i32> values through the From conversions, then   *)
(* Slice::indices(len) builds an Iter {i, end, step} and Iter::next is     *)
(* called until it returns None (what collect() on apply() does).          *)
(* SpecFused has a consumer that keeps calling next after the first None;  *)
(* SpecText renders a Slice with Display and parses the text back with     *)
(* the demo parser.                                                        *)
(*                                                                         *)
(* Machine integers are scaled: i32 has HalfBits bits, usize and isize     *)
(* have 2*HalfBits bits and i128 has 4*HalfBits bits, which keeps the      *)
(* 32 : 64 : 128 ratio of the widths the code relies on.                   *)
(***************************************************************************)
EXTENDS Integers, Sequences, FiniteSets

VARIABLES pc, src, slice, len, it, out, late, text, parsed

vars == <<pc, src, slice, len, it, out, late, text, parsed>>

(***************************************************************************)
(* Bounds of the model.                                                    *)
(***************************************************************************)
HalfBits == 3
MaxLen == 4
MaxStep == 3

(***************************************************************************)
(* Machine integer types.                                                  *)
(***************************************************************************)
RECURSIVE Pow2(_)
Pow2(n) == IF n = 0 THEN 1 ELSE 2 * Pow2(n - 1)

WordBits == 2 * HalfBits
WideBits == 2 * WordBits

USIZE_MAX == Pow2(WordBits) - 1
ISIZE_MAX == Pow2(WordBits - 1) - 1
ISIZE_MIN == -Pow2(WordBits - 1)
I32_MAX == Pow2(HalfBits - 1) - 1
I32_MIN == -Pow2(HalfBits - 1)
I128_MAX == Pow2(WideBits - 1) - 1
I128_MIN == -Pow2(WideBits - 1)

\* two's complement wrap of x into a signed type of the given width
WrapSigned(x, bits) ==
    LET r == x % Pow2(bits)
    IN  IF r >= Pow2(bits - 1) THEN r - Pow2(bits) ELSE r

\* `x as usize` for a signed x of any width: sign extension, then truncation
AsUsize(x) == x % Pow2(WordBits)

Min2(a, b) == IF a <= b THEN a ELSE b
Max2(a, b) == IF a >= b THEN a ELSE b

(***************************************************************************)
(* Option<integer> and Index values.                                       *)
(***************************************************************************)
None == [some |-> FALSE, v |-> 0]
Some(x) == [some |-> TRUE, v |-> x]
UnwrapOr(o, d) == IF o.some THEN o.v ELSE d

IdxHead(k) == [tag |-> "Head", n |-> k]
IdxTail(k) == [tag |-> "Tail", n |-> k]
Default == [tag |-> "Default", n |-> 0]

Slice(s, e, st) == [start |-> s, end |-> e, step |-> st]

(***************************************************************************)
(* Input sets: small magnitudes around the array length and the extreme    *)
(* magnitudes of the machine types.                                        *)
(***************************************************************************)
Magnitudes == (0 .. (MaxLen + 2))
              \cup {ISIZE_MAX, ISIZE_MAX + 1, USIZE_MAX - 1, USIZE_MAX}
Indexes == {IdxHead(k) : k \in Magnitudes} \cup {IdxTail(k) : k \in Magnitudes}
           \cup {Default}
StepValues == ((-MaxStep) .. MaxStep) \cup {ISIZE_MIN, ISIZE_MIN + 1, ISIZE_MAX}
Steps == {Some(x) : x \in StepValues} \cup {None}
Lens == (0 .. MaxLen) \cup {USIZE_MAX}
IsizeArgs == {Some(x) : x \in {ISIZE_MIN, ISIZE_MIN + 1, -2, -1, 0, 1, 2, ISIZE_MAX}}
             \cup {None}
I32Args == {Some(x) : x \in {I32_MIN, I32_MIN + 1, -1, 0, 1, I32_MAX}}
           \cup {None}

(***************************************************************************)
(* clamp, Index::to_bound, Slice::indices, Iter::next                      *)
(***************************************************************************)
\* variant: the bound is passed through without clamping
clamp_unclamped(n, lo, hi) == n

clamp(n, lo, hi) == Min2(Max2(n, lo), hi)

\* variant: len - n computed in the word-sized signed type
to_bound_narrow(idx, l, lo, hi) ==
    CASE idx.tag = "Head" -> Some(clamp(idx.n, lo, hi))
      [] idx.tag = "Tail" -> Some(clamp(WrapSigned(l - idx.n, WordBits), lo, hi))
      [] OTHER -> None

\* variant: Head(n) widened through the signed word type
to_bound_head_signed(idx, l, lo, hi) ==
    CASE idx.tag = "Head" -> Some(clamp(WrapSigned(idx.n, WordBits), lo, hi))
      [] idx.tag = "Tail" -> Some(clamp(WrapSigned(l - idx.n, WideBits), lo, hi))
      [] OTHER -> None

\* variant: Tail(n) read as the signed integer -n, so that Tail(0) is Head(0)
to_bound_tail_zero_is_head(idx, l, lo, hi) ==
    CASE idx.tag = "Head" -> Some(clamp(idx.n, lo, hi))
      [] idx.tag = "Tail" -> Some(clamp(IF idx.n = 0 THEN 0
                                        ELSE WrapSigned(l - idx.n, WideBits), lo, hi))
      [] OTHER -> None

to_bound(idx, l, lo, hi) ==
    CASE idx.tag = "Head" -> Some(clamp(idx.n, lo, hi))
      [] idx.tag = "Tail" -> Some(clamp(WrapSigned(l - idx.n, WideBits), lo, hi))
      [] OTHER -> None

\* variant: one clamp range [0, len] for both directions
indices_symmetric_bounds(s, ulen) ==
    LET l == ulen
        step == UnwrapOr(s.step, 1)
        def_start == IF step >= 0 THEN 0 ELSE l - 1
        def_end == IF step >= 0 THEN l ELSE -1
    IN  [i |-> UnwrapOr(to_bound(s.start, l, 0, l), def_start),
         end |-> UnwrapOr(to_bound(s.end, l, 0, l), def_end),
         step |-> step]

\* variant: an absent step defaults to 0
indices_default_step_zero(s, ulen) ==
    LET l == ulen
        step == UnwrapOr(s.step, 0)
        def_start == IF step >= 0 THEN 0 ELSE l - 1
        def_end == IF step >= 0 THEN l ELSE -1
        lo == IF step >= 0 THEN def_start ELSE def_end
        hi == IF step >= 0 THEN def_end ELSE def_start
    IN  [i |-> UnwrapOr(to_bound(s.start, l, lo, hi), def_start),
         end |-> UnwrapOr(to_bound(s.end, l, lo, hi), def_end),
         step |-> step]

\* variant: the descending default end is index 0 instead of -1
indices_def_end_zero(s, ulen) ==
    LET l == ulen
        step == UnwrapOr(s.step, 1)
        def_start == IF step >= 0 THEN 0 ELSE l - 1
        def_end == IF step >= 0 THEN l ELSE 0
        lo == IF step >= 0 THEN 0 ELSE -1
        hi == IF step >= 0 THEN l ELSE l - 1
    IN  [i |-> UnwrapOr(to_bound(s.start, l, lo, hi), def_start),
         end |-> UnwrapOr(to_bound(s.end, l, lo, hi), def_end),
         step |-> step]

indices(s, ulen) ==
    LET l == ulen
        step == UnwrapOr(s.step, 1)
        def_start == IF step >= 0 THEN 0 ELSE l - 1
        def_end == IF step >= 0 THEN l ELSE -1
        lo == IF step >= 0 THEN def_start ELSE def_end
        hi == IF step >= 0 THEN def_end ELSE def_start
    IN  [i |-> UnwrapOr(to_bound(s.start, l, lo, hi), def_start),
         end |-> UnwrapOr(to_bound(s.end, l, lo, hi), def_end),
         step |-> step]

\* variant: the ascending comparison includes the end bound
is_in_range_asc_inclusive(step, a, b) == IF step >= 0 THEN a <= b ELSE a > b

\* variant: the descending comparison includes the end bound
is_in_range_desc_inclusive(step, a, b) == IF step >= 0 THEN a < b ELSE a >= b

is_in_range(step, a, b) == IF step >= 0 THEN a < b ELSE a > b

\* variant: no early return for a zero step
next_no_zero_check(t) ==
    LET i == t.i
        sum == i + t.step
    IN  [ret |-> IF is_in_range(t.step, i, t.end)
                 THEN Some(AsUsize(i)) ELSE None,
         it |-> [t EXCEPT !.i = WrapSigned(sum, WideBits)],
         overflow |-> sum < I128_MIN \/ sum > I128_MAX]

\* one call of Iter::next: the returned Option, the iterator afterwards, and
\* whether `self.i += self.step` left the i128 range
next(t) ==
    IF t.step = 0
    THEN [ret |-> None, it |-> t, overflow |-> FALSE]
    ELSE LET i == t.i
             sum == i + t.step
         IN  [ret |-> IF is_in_range(t.step, i, t.end)
                      THEN Some(AsUsize(i)) ELSE None,
              it |-> [t EXCEPT !.i = WrapSigned(sum, WideBits)],
              overflow |-> sum < I128_MIN \/ sum > I128_MAX]

\* indices(len).collect(): the positions yielded before the first None
RECURSIVE collect_from(_, _)
collect_from(t, fuel) ==
    LET r == next(t)
    IN  IF r.ret.some /\ fuel > 0
        THEN <<r.ret.v>> \o collect_from(r.it, fuel - 1)
        ELSE <<>>

collect(s, l) == collect_from(indices(s, l), l + 1)

(***************************************************************************)
(* From<isize>, From<i32>, From<Option<U>> for Index.  `-i` overflows for  *)
(* the minimum value: the result is absent when the build panics on        *)
(* overflow and the wrapped value when it does not.                        *)
(***************************************************************************)
from_isize(i, checked) ==
    IF i < 0
    THEN IF -i > ISIZE_MAX /\ checked
         THEN None
         ELSE Some(IdxTail(AsUsize(WrapSigned(-i, WordBits))))
    ELSE Some(IdxHead(AsUsize(i)))

from_i32(i, checked) ==
    IF i < 0
    THEN IF -i > I32_MAX /\ checked
         THEN None
         ELSE Some(IdxTail(AsUsize(WrapSigned(-i, HalfBits))))
    ELSE Some(IdxHead(AsUsize(i)))

from_option_isize(o, checked) ==
    IF o.some THEN from_isize(o.v, checked) ELSE Some(Default)

from_option_i32(o, checked) ==
    IF o.some THEN from_i32(o.v, checked) ELSE Some(Default)

(***************************************************************************)
(* State machine.                                                          *)
(***************************************************************************)
NoSrc == [kind |-> "none", a |-> None, b |-> None]
NoSlice == Slice(Default, Default, None)
NoIter == [i |-> 0, end |-> 0, step |-> 0]
NoParse == [ok |-> FALSE, slice |-> NoSlice]

Init ==
    /\ pc = "new"
    /\ src = NoSrc
    /\ slice = NoSlice
    /\ len = 0
    /\ it = NoIter
    /\ out = <<>>
    /\ late = 0
    /\ text = <<>>
    /\ parsed = NoParse

\* Slice { start, end, step } written with Index values
SliceLiteral ==
    /\ pc = "new"
    /\ \E s \in Indexes, e \in Indexes, st \in Steps :
          slice' = Slice(s, e, st)
    /\ src' = [kind |-> "literal", a |-> None, b |-> None]
    /\ pc' = "built"
    /\ UNCHANGED <<len, it, out, late, text, parsed>>

\* Slice { start: a.into(), end: b.into(), step } with a, b : Option<isize>
SliceFromIsize ==
    /\ pc = "new"
    /\ \E a \in IsizeArgs, b \in IsizeArgs, st \in Steps, checked \in BOOLEAN :
          LET s == from_option_isize(a, checked)
              e == from_option_isize(b, checked)
          IN  /\ src' = [kind |-> "isize", a |-> a, b |-> b]
              /\ IF s.some /\ e.some
                 THEN /\ slice' = Slice(s.v, e.v, st)
                      /\ pc' = "built"
                 ELSE /\ slice' = slice
                      /\ pc' = "panic_negate"
    /\ UNCHANGED <<len, it, out, late, text, parsed>>

\* Slice { start: a.into(), end: b.into(), step } with a, b : Option<i32>
SliceFromI32 ==
    /\ pc = "new"
    /\ \E a \in I32Args, b \in I32Args, st \in Steps, checked \in BOOLEAN :
          LET s == from_option_i32(a, checked)
              e == from_option_i32(b, checked)
          IN  /\ src' = [kind |-> "i32", a |-> a, b |-> b]
              /\ IF s.some /\ e.some
                 THEN /\ slice' = Slice(s.v, e.v, st)
                      /\ pc' = "built"
                 ELSE /\ slice' = slice
                      /\ pc' = "panic_negate"
    /\ UNCHANGED <<len, it, out, late, text, parsed>>

\* self.indices(arr.len()) at the start of apply
Indices ==
    /\ pc = "built"
    /\ \E l \in Lens :
          /\ len' = l
          /\ it' = indices(slice, l)
    /\ pc' = "iter"
    /\ UNCHANGED <<src, slice, out, late, text, parsed>>

\* one Iter::next call made by the consumer of apply, and `&arr[i]` on Some(i)
IterNext ==
    /\ pc = "iter"
    /\ LET r == next(it)
       IN  /\ it' = r.it
           /\ IF r.overflow
              THEN /\ pc' \in {"panic_add", IF r.ret.some THEN "iter" ELSE "done"}
                   /\ out' = IF pc' = "iter" THEN Append(out, r.ret.v) ELSE out
              ELSE IF r.ret.some
                   THEN IF r.ret.v < len
                        THEN /\ out' = Append(out, r.ret.v)
                             /\ pc' = "iter"
                        ELSE /\ out' = out
                             /\ pc' = "panic_index"
                   ELSE /\ out' = out
                        /\ pc' = "done"
    /\ UNCHANGED <<src, slice, len, late, text, parsed>>

Next ==
    \/ SliceLiteral
    \/ SliceFromIsize
    \/ SliceFromI32
    \/ Indices
    \/ IterNext

Spec == Init /\ [][Next]_vars

(***************************************************************************)
(* A consumer that keeps calling Iter::next after it has returned None.    *)
(* Iter::next adds step to i on every call with a non-zero step, also on   *)
(* the calls that return None.                                             *)
(***************************************************************************)
FusedIndexes == {Default, IdxHead(0), IdxHead(USIZE_MAX), IdxTail(1), IdxTail(USIZE_MAX)}
FusedSteps == {None, Some(0), Some(2), Some(-1), Some(ISIZE_MIN), Some(ISIZE_MAX)}

\* calls after the first None that the consumer makes at most: enough for
\* i to leave the i128 range with a step of the largest magnitude
LateCalls == Pow2(WordBits) + 3

SliceFused ==
    /\ pc = "new"
    /\ \E s \in FusedIndexes, e \in FusedIndexes, st \in FusedSteps :
          slice' = Slice(s, e, st)
    /\ src' = [kind |-> "literal", a |-> None, b |-> None]
    /\ pc' = "built"
    /\ UNCHANGED <<len, it, out, late, text, parsed>>

\* one Iter::next call after next has already returned None
IterNextLate ==
    /\ pc = "done"
    /\ late < LateCalls
    /\ late' = late + 1
    /\ LET r == next(it)
           returned == IF ~r.ret.some THEN "done"
                       ELSE IF r.ret.v < len THEN "resumed" ELSE "panic_index"
       IN  /\ it' = r.it
           /\ pc' \in (IF r.overflow THEN {"panic_add", returned} ELSE {returned})
           /\ out' = IF pc' = "resumed" THEN Append(out, r.ret.v) ELSE out
    /\ UNCHANGED <<src, slice, len, text, parsed>>

NextFused ==
    \/ SliceFused
    \/ Indices
    \/ IterNext
    \/ IterNextLate

SpecFused == Init /\ [][NextFused]_vars

(***************************************************************************)
(* Text: impl Display for Slice and Index (lib.rs), and the demo parser    *)
(* parse_index / parse_slice (demo/src/main.rs).  A text is a sequence of  *)
(* characters.                                                             *)
(***************************************************************************)
DigitChars == <<"0", "1", "2", "3", "4", "5", "6", "7", "8", "9">>
IsDigit(c) == \E d \in 1 .. 10 : DigitChars[d] = c
digit_value(c) == (CHOOSE d \in 1 .. 10 : DigitChars[d] = c) - 1

\* usize::to_string
RECURSIVE to_string_unsigned(_)
to_string_unsigned(n) ==
    IF n < 10 THEN <<DigitChars[n + 1]>>
    ELSE to_string_unsigned(n \div 10) \o <<DigitChars[(n % 10) + 1]>>

\* isize::to_string
to_string_isize(n) ==
    IF n < 0 THEN <<"-">> \o to_string_unsigned(-n) ELSE to_string_unsigned(n)

display_index(idx) ==
    CASE idx.tag = "Head" -> to_string_unsigned(idx.n)
      [] idx.tag = "Tail" -> <<"-">> \o to_string_unsigned(idx.n)
      [] OTHER -> <<>>

display_slice(s) ==
    <<"[">> \o display_index(s.start) \o <<":">> \o display_index(s.end)
    \o <<":">> \o (IF s.step.some THEN to_string_isize(s.step.v) ELSE <<>>)
    \o <<"]">>

\* nom digit1: the number of leading digits of the input
RECURSIVE digit1_len(_)
digit1_len(input) ==
    IF input # <<>> /\ IsDigit(Head(input)) THEN 1 + digit1_len(Tail(input)) ELSE 0

\* the decimal value of a sequence of digits
RECURSIVE digits_value(_)
digits_value(ds) ==
    IF ds = <<>> THEN 0
    ELSE 10 * digits_value(SubSeq(ds, 1, Len(ds) - 1)) + digit_value(ds[Len(ds)])

\* nom char(c): consumes c or fails
char(c, input) ==
    IF input # <<>> /\ Head(input) = c
    THEN [ok |-> TRUE, rest |-> Tail(input)]
    ELSE [ok |-> FALSE, rest |-> input]

\* parse_index: an optional '-', then optional digits that parse as an isize
parse_index(input) ==
    LET sign == char("-", input)
        n == digit1_len(sign.rest)
        d == digits_value(SubSeq(sign.rest, 1, n))
        digits_ok == n >= 1 /\ d <= ISIZE_MAX
    IN  [rest |-> IF digits_ok THEN SubSeq(sign.rest, n + 1, Len(sign.rest))
                  ELSE sign.rest,
         val |-> IF digits_ok THEN Some(IF sign.ok THEN -d ELSE d) ELSE None]

\* parse_slice, and parse dropping the rest of the input; panic is the
\* negation overflow of From<isize>
parse_slice(input, checked) ==
    LET open == char("[", input)
        start == parse_index(open.rest)
        colon1 == char(":", start.rest)
        end == parse_index(colon1.rest)
        colon2 == char(":", end.rest)
        step == parse_index(colon2.rest)
        close == char("]", step.rest)
        s == from_option_isize(start.val, checked)
        e == from_option_isize(end.val, checked)
    IN  IF ~(open.ok /\ colon1.ok /\ colon2.ok /\ close.ok)
        THEN [ok |-> FALSE, panic |-> FALSE, slice |-> NoSlice]
        ELSE IF ~(s.some /\ e.some)
        THEN [ok |-> FALSE, panic |-> TRUE, slice |-> NoSlice]
        ELSE [ok |-> TRUE, panic |-> FALSE, slice |-> Slice(s.v, e.v, step.val)]

\* slice.to_string()
Display ==
    /\ pc = "built"
    /\ text' = display_slice(slice)
    /\ pc' = "shown"
    /\ UNCHANGED <<src, slice, len, it, out, late, parsed>>

\* parse(expr) of the demo on the rendered text
Parse ==
    /\ pc = "shown"
    /\ \E checked \in BOOLEAN :
          LET r == parse_slice(text, checked)
          IN  /\ parsed' = [ok |-> r.ok, slice |-> r.slice]
              /\ pc' = IF r.ok THEN "parsed"
                       ELSE IF r.panic THEN "panic_negate" ELSE "parse_error"
    /\ UNCHANGED <<src, slice, len, it, out, late, text>>

NextText ==
    \/ SliceLiteral
    \/ Display
    \/ Parse

SpecText == Init /\ [][NextText]_vars

(***************************************************************************)
(* The reference: python evaluating seq[start:end:step] on a sequence of   *)
(* length l, the fields written by Display for Index (Head(n) as n,        *)
(* Tail(n) as -n, Default as the empty field).                             *)
(***************************************************************************)
py_field(idx) ==
    CASE idx.tag = "Head" -> Some(idx.n)
      [] idx.tag = "Tail" -> Some(-idx.n)
      [] OTHER -> None

py_adjust(v, l, step) ==
    IF v < 0
    THEN IF v + l < 0 THEN (IF step < 0 THEN -1 ELSE 0) ELSE v + l
    ELSE IF v >= l THEN (IF step < 0 THEN l - 1 ELSE l) ELSE v

py_slice(l, start, stop, stepopt) ==
    LET step == UnwrapOr(stepopt, 1)
        b == IF start.some THEN py_adjust(start.v, l, step)
             ELSE IF step < 0 THEN l - 1 ELSE 0
        e == IF stop.some THEN py_adjust(stop.v, l, step)
             ELSE IF step < 0 THEN -1 ELSE l
        n == IF step < 0
             THEN IF e < b THEN ((b - e - 1) \div (-step)) + 1 ELSE 0
             ELSE IF b < e THEN ((e - b - 1) \div step) + 1 ELSE 0
    IN  [k \in 1 .. n |-> b + (k - 1) * step]

(***************************************************************************)
(* Properties.                                                             *)
(***************************************************************************)
EffStep == UnwrapOr(slice.step, 1)
Applied == pc \in {"iter", "done", "panic_index", "panic_add"}

\* C1: every position yielded by indices(len) lies in [0, len), so apply
\* never indexes out of bounds and never panics, for every len and Slice.
C1_InBounds ==
    /\ pc \notin {"panic_index", "panic_add"}
    /\ \A k \in 1 .. Len(out) : 0 <= out[k] /\ out[k] < len
    /\ pc = "iter" => LET r == next(it)
                      IN  r.ret.some => (0 <= r.ret.v /\ r.ret.v < len)

C1_Witness ==
    /\ pc = "done"
    /\ len = USIZE_MAX
    /\ slice.start = IdxTail(USIZE_MAX)
    /\ slice.end = IdxHead(USIZE_MAX)
    /\ slice.step = Some(ISIZE_MAX)
    /\ Len(out) = 3

\* C2: with step None or non-zero and no Tail(0) field, the positions
\* yielded by indices(len) are the ones python selects for
\* seq[start:end:step] on a sequence of length len.
C2_MatchesPython ==
    (/\ pc = "done"
     /\ slice.step # Some(0)
     /\ slice.start # IdxTail(0)
     /\ slice.end # IdxTail(0))
    => out = py_slice(len, py_field(slice.start), py_field(slice.end), slice.step)

C2_Witness ==
    /\ pc = "done"
    /\ len = MaxLen
    /\ slice.start = Default
    /\ slice.end = IdxTail(USIZE_MAX)
    /\ slice.step = Some(-1)
    /\ Len(out) = MaxLen

\* n is near the maximum representable usize
NearMax(n) == n >= USIZE_MAX - 1

WithStart(idx) == [slice EXCEPT !.start = idx]
WithEnd(idx) == [slice EXCEPT !.end = idx]

\* C3 as stated: on an array of length 4, Tail(n) with n near the maximum,
\* as start or as end, yields the same sequence as Tail(4) in that field,
\* for every value of the other fields, negative steps included.
C3_TailMaxIsTail4 ==
    (pc = "done" /\ len = 4) =>
        /\ (slice.start.tag = "Tail" /\ NearMax(slice.start.n))
              => out = collect(WithStart(IdxTail(4)), len)
        /\ (slice.end.tag = "Tail" /\ NearMax(slice.end.n))
              => out = collect(WithEnd(IdxTail(4)), len)

\* C3 amended: on an array of length 4, Tail(n) with n near the maximum, as
\* start or as end, yields the same sequence as Tail(4) in that field when
\* the step is None or >= 0, and as Tail(5) when the step is negative.
C3_TailMaxIsClamped ==
    (pc = "done" /\ len = 4) =>
        LET edge == IF EffStep >= 0 THEN IdxTail(4) ELSE IdxTail(5)
        IN  /\ (slice.start.tag = "Tail" /\ NearMax(slice.start.n))
                  => out = collect(WithStart(edge), len)
            /\ (slice.end.tag = "Tail" /\ NearMax(slice.end.n))
                  => out = collect(WithEnd(edge), len)

C3_Witness ==
    /\ pc = "done"
    /\ len = 4
    /\ slice.start = IdxHead(2)
    /\ slice.end = IdxTail(USIZE_MAX - 1)
    /\ slice.step = Some(-1)
    /\ out = <<2, 1, 0>>

\* len + 1 is a usize, so that Tail(len + 1) can be written
HasTailLenPlus1 == len + 1 <= USIZE_MAX

\* the documented default of a start or end field
DefaultStart == IF EffStep >= 0 THEN IdxHead(0) ELSE IdxTail(1)
DefaultEnd == IF EffStep >= 0 THEN IdxHead(len) ELSE IdxTail(len + 1)

OutOfRange(idx) ==
    \/ idx.tag = "Head" /\ idx.n >= len
    \/ idx.tag = "Tail" /\ idx.n >= len + 1

EdgeDefault(idx) ==
    IF idx.tag = "Head"
    THEN IF EffStep >= 0 THEN IdxHead(len) ELSE IdxTail(1)
    ELSE IF EffStep >= 0 THEN IdxHead(0) ELSE IdxTail(len + 1)

ExactIndex(o) ==
    IF ~o.some THEN Default
    ELSE IF o.v >= 0 THEN IdxHead(o.v) ELSE IdxTail(-o.v)

\* C5: From<isize> and From<i32> (and From<Option<U>> over them) never fail
\* and give Head(v) for v >= 0, Tail(-v) with the exact magnitude for
\* v < 0, the minimum value included, and Default for None.
C5_ConversionsTotalExact ==
    /\ pc # "panic_negate"
    /\ (pc = "built" /\ src.kind \in {"isize", "i32"}) =>
          /\ slice.start = ExactIndex(src.a)
          /\ slice.end = ExactIndex(src.b)

\* the bounds as the specification resolves them: Head(n) is n, Tail(n) is
\* len - n, clamped into [0, len] for s >= 0 and [-1, len - 1] for s < 0
ResolvedOr(idx, dflt) ==
    LET lo == IF EffStep >= 0 THEN 0 ELSE -1
        hi == IF EffStep >= 0 THEN len ELSE len - 1
        raw == IF idx.tag = "Head" THEN idx.n ELSE len - idx.n
    IN  IF idx.tag = "Default" THEN dflt
        ELSE IF raw < lo THEN lo ELSE IF raw > hi THEN hi ELSE raw

ResolvedStart == ResolvedOr(slice.start, IF EffStep >= 0 THEN 0 ELSE len - 1)
ResolvedEnd == ResolvedOr(slice.end, IF EffStep >= 0 THEN len ELSE -1)

\* max(0, ceil(d / s)) for s # 0
CeilDivPos(d, s) ==
    IF s > 0
    THEN IF d > 0 THEN (d + s - 1) \div s ELSE 0
    ELSE IF d < 0 THEN ((-d) + (-s) - 1) \div (-s) ELSE 0

\* C6: with effective step s # 0, indices(len) yields exactly
\* max(0, ceil((end - start) / s)) positions, start and end being the
\* resolved bounds.
C6_Count ==
    (pc = "done" /\ EffStep # 0)
    => Len(out) = CeilDivPos(ResolvedEnd - ResolvedStart, EffStep)

C6_Witness ==
    /\ pc = "done"
    /\ len = MaxLen
    /\ slice.start = IdxTail(1)
    /\ slice.end = Default
    /\ slice.step = Some(-3)
    /\ Len(out) = CeilDivPos(-MaxLen, -3)
    /\ Len(out) >= 2

\* C7: a Slice whose step is Some(0) yields the empty sequence for every
\* len, start and end, and nothing fails.
C7_ZeroStepEmpty ==
    (Applied /\ slice.step = Some(0)) => (out = <<>> /\ pc \in {"iter", "done"})

C7_Witness ==
    /\ pc = "done"
    /\ slice.step = Some(0)
    /\ slice.start = IdxHead(0)
    /\ slice.end = Default
    /\ len = MaxLen
    /\ out = <<>>

\* C8: with start and end Default, indices(L) yields [0, 1, ..., L-1] for
\* step None or Some(1) and [L-1, ..., 1, 0] for step Some(-1), for every L.
C8_DefaultWhole ==
    (pc = "done" /\ slice.start = Default /\ slice.end = Default) =>
        /\ slice.step \in {None, Some(1)} => out = [k \in 1 .. len |-> k - 1]
        /\ slice.step = Some(-1) => out = [k \in 1 .. len |-> len - k]

C8_Witness ==
    /\ pc = "done"
    /\ slice = Slice(Default, Default, None)
    /\ len = MaxLen
    /\ Len(out) = MaxLen
    /\ out[1] = 0

\* C9: a Default start yields the same sequence as Head(0) (step >= 0) or
\* Tail(1) (step < 0) in its place, and a Default end the same as Head(len)
\* (step >= 0) or Tail(len + 1) (step < 0), for every len, step and other
\* bound.
C9_DefaultIsExplicit ==
    pc = "done" =>
        /\ slice.start = Default => out = collect(WithStart(DefaultStart), len)
        /\ (slice.end = Default /\ (EffStep >= 0 \/ HasTailLenPlus1))
              => out = collect(WithEnd(DefaultEnd), len)

C9_Witness ==
    /\ pc = "done"
    /\ len = MaxLen
    /\ slice = Slice(IdxHead(MaxLen - 1), Default, Some(-1))
    /\ Len(out) = MaxLen

Reverse(q) == [k \in 1 .. Len(q) |-> q[Len(q) + 1 - k]]

\* C10: for 0 <= a <= b <= L, Slice{Head(a), Head(b), Some(1)} yields the
\* reverse of Slice{Tail(L-b+1), Tail(L-a+1) (or Default when a = 0),
\* Some(-1)}.
C10_Symmetry ==
    (/\ pc = "done"
     /\ slice.step = Some(1)
     /\ slice.start.tag = "Head"
     /\ slice.end.tag = "Head"
     /\ slice.start.n <= slice.end.n
     /\ slice.end.n <= len
     /\ len - slice.end.n + 1 <= USIZE_MAX) =>
        LET a == slice.start.n
            b == slice.end.n
            back == IdxTail(len - b + 1)
        IN  /\ (len - a + 1 <= USIZE_MAX) =>
                   out = Reverse(collect(Slice(back, IdxTail(len - a + 1), Some(-1)), len))
            /\ (a = 0) =>
                   out = Reverse(collect(Slice(back, Default, Some(-1)), len))

C10_Witness ==
    /\ pc = "done"
    /\ len = MaxLen
    /\ slice = Slice(IdxHead(0), IdxHead(MaxLen - 1), Some(1))
    /\ Len(out) = MaxLen - 1

\* C13: a start of Tail(0) resolves to position len and is clamped into the
\* direction's range: with step > 0 the sequence is empty, and with
\* step < 0 it is the sequence of start = Tail(1), for every len and end.
C13_TailZeroStart ==
    (slice.start = IdxTail(0) /\ pc \in {"iter", "done"}) =>
        /\ (pc = "iter" /\ out = <<>> /\ EffStep > 0) => it.i = len
        /\ (pc = "iter" /\ out = <<>> /\ EffStep < 0) => it.i = len - 1
        /\ (pc = "done" /\ EffStep > 0) => out = <<>>
        /\ (pc = "done" /\ EffStep < 0) => out = collect(WithStart(IdxTail(1)), len)

C13_Witness ==
    /\ pc = "done"
    /\ len = MaxLen
    /\ slice = Slice(IdxTail(0), Default, Some(-1))
    /\ Len(out) = MaxLen
    /\ out[1] = MaxLen - 1

\* C12: once next() has returned None every later next() call returns None,
\* the counter never re-enters the range, and the first None comes after at
\* most len yielded positions.
C12_Fused ==
    /\ late > 0 => pc = "done"
    /\ (pc = "done" /\ it.step # 0) => ~is_in_range(it.step, it.i, it.end)
    /\ pc \in {"iter", "done"} => Len(out) <= len

\* C11: rendering any Slice with Display and parsing the text with the demo
\* parser succeeds and gives back a Slice with the same start, end and step.
C11_RoundTrip ==
    /\ pc \notin {"parse_error", "panic_negate"}
    /\ pc = "parsed" => parsed.slice = slice

====
